---- MODULE Spec2Model ----
(***************************************************************************)
(* Model of run() in src/lib/main.ts: the label lookup, the bounded poll   *)
(* loop over getPullRequests, the two forEach passes that dispatch         *)
(* addLabelsToLabelable / removeLabelsFromLabelable without awaiting them, *)
(* and the settling of those calls after run() has returned.               *)
(***************************************************************************)
EXTENDS Integers, Sequences, FiniteSets, TLC

\* ------------------------------------------------------------------ bounds
\* Pull requests of the repository (ids 1..NumPRs) and labels of the
\* repository (ids 1..NumLabels).
NumPRs == 2
NumLabels == 2

\* --------------------------------------------------------- program constants
maxRetries == 60

\* CONFLICT_LABEL_NAME, the configured name of the conflict label.
conflictLabelName == "has conflicts"

VARIABLES
    pc,                \* position of run(): getLabels, loop, fetch, label, unlabel, done, threw
    failed,            \* core.setFailed has been called (the process exit code)
    conflictLabel,     \* let conflictLabel (Undefined until found)
    pullRequests,      \* let pullRequests (no array until the first successful fetch)
    pullrequestsWithoutMergeStatus,
    tries,
    remoteLabels,      \* the repository: label ids applied to each pull request
    calls,             \* the add/remove requests dispatched, in dispatch order
    rejected,          \* pull requests whose forEach callback threw outside its try
    fetches,           \* history: number of getPullRequests calls
    waits,             \* history: number of wait(waitMs) calls
    failures,          \* history: the kinds of failure that occurred
    lastFetch,         \* history: outcome of the most recent getPullRequests call
    resolvedAt,        \* history: number of the first fetch that returned no UNKNOWN (0: none)
    allUnknown,        \* history: every fetch so far succeeded and held an UNKNOWN
    prev,              \* history: the previous run, when the action is run a second time
    lookup             \* the label lookup taken alone: the name sought and the candidates

vars == <<pc, failed, conflictLabel, pullRequests, pullrequestsWithoutMergeStatus,
          tries, remoteLabels, calls, rejected, fetches, waits, failures,
          lastFetch, resolvedAt, allUnknown, prev, lookup>>

\* ------------------------------------------------------------------ values
PRIds == 1..NumPRs
LabelIds == 1..NumLabels

\* The name of the repository's label i: label 2 carries the configured name,
\* the others are the near matches a fuzzy label query also returns.
LabelNameOf(i) == IF i = 2 THEN "has conflicts"
                  ELSE IF i = 1 THEN "has-conflicts-old" ELSE "conflicts"

RepoLabels == {[id |-> i, name |-> LabelNameOf(i)] : i \in LabelIds}

\* An unassigned `let conflictLabel` / a find() that found nothing.
Undefined == [id |-> 0, name |-> ""]
IsUndefined(label) == label.id = 0

\* An unassigned `let pullRequests`.
NoPullRequests == [isArray |-> FALSE, edges |-> <<>>]

\* What getLabels can return: the labels the query matched, in any order.
LabelLists ==
    UNION {{s \in [1..n -> RepoLabels] : \A i, j \in 1..n : i # j => s[i] # s[j]}
           : n \in 0..NumLabels}

\* A pull request node as getPullRequests returns it.
PRNode(p, m, ls) == [id |-> p, mergeable |-> m, labels |-> ls]

\* The open pull requests, in id order, for a choice f of each pull request's
\* state (CLOSED: not open, so not returned).
EdgesOf(f, labelsOf) ==
    SelectSeq([p \in PRIds |-> PRNode(p, f[p], labelsOf[p])],
              LAMBDA n : n.mergeable # "CLOSED")

\* What a getPullRequests call can return. In a second run on the unchanged
\* repository it returns the pull requests and facts the first run ended with,
\* with the labels as they now are.
GetPullRequestsResults ==
    IF prev.ran
    THEN {[i \in 1..Len(prev.edges) |->
             PRNode(prev.edges[i].id, prev.edges[i].mergeable,
                    remoteLabels[prev.edges[i].id])]}
    ELSE {EdgesOf(f, remoteLabels) :
             f \in [PRIds -> {"CONFLICTING", "MERGEABLE", "UNKNOWN", "CLOSED"}]}

\* ------------------------------------------------------------ pure helpers
\* Mutant: the lookup trusts the query's ranking and takes the first candidate.
findFirstCandidate(edges, name) ==
    IF edges = <<>> THEN Undefined ELSE edges[1]

\* Array.prototype.find over the label edges, by exact name.
find(edges, name) ==
    IF \E i \in 1..Len(edges) : edges[i].name = name
    THEN edges[CHOOSE i \in 1..Len(edges) :
                   /\ edges[i].name = name
                   /\ \A j \in 1..(i - 1) : edges[j].name # name]
    ELSE Undefined

getPullrequestsWithoutMergeStatus(edges) ==
    SelectSeq(edges, LAMBDA n : n.mergeable = "UNKNOWN")

\* Mutant: the filter keeps every pull request that is not MERGEABLE.
pullrequestsWithConflictsOrUnknown ==
    SelectSeq(pullRequests.edges, LAMBDA n : n.mergeable # "MERGEABLE")

pullrequestsWithConflicts ==
    SelectSeq(pullRequests.edges, LAMBDA n : n.mergeable = "CONFLICTING")

\* Mutant: the second filter keeps every pull request with a known fact, the
\* CONFLICTING ones included.
pullrequestsWithConflictResolutionOverlap ==
    SelectSeq(pullRequests.edges, LAMBDA n : n.mergeable # "UNKNOWN")

\* Mutant: the filter compares with a misspelt constant and keeps nothing.
pullrequestsWithConflictResolutionNone ==
    SelectSeq(pullRequests.edges, LAMBDA n : n.mergeable = "MERGABLE")

pullrequestsWithConflictResolution ==
    SelectSeq(pullRequests.edges, LAMBDA n : n.mergeable = "MERGEABLE")

\* Mutant: the lookup never finds the label.
isAlreadyLabeledNever(node) == FALSE

\* The find over pullrequest.node.labels.edges by label id.
isAlreadyLabeled(node) == \E l \in node.labels : l = conflictLabel.id

\* The find callback reads conflictLabel.node.id once per label of the pull
\* request: with conflictLabel undefined and at least one label it throws.
FindThrows(node) == IsUndefined(conflictLabel) /\ node.labels # {}

\* Mutant: the loop goes on whatever the probe found.
LoopCondIgnoresProbe == tries < maxRetries \/ tries = 0

\* Mutant: the budget test is off by one.
LoopCondOffByOne ==
    \/ (Len(pullrequestsWithoutMergeStatus) > 0 /\ tries <= maxRetries)
    \/ tries = 0

\* The while condition.
LoopCond ==
    \/ (Len(pullrequestsWithoutMergeStatus) > 0 /\ tries < maxRetries)
    \/ tries = 0

\* Mutant: the label pass does not look at the labels already applied.
LabelOutcomeUnchecked(node) ==
    IF FindThrows(node) THEN "rejected"
    ELSE IF IsUndefined(conflictLabel) THEN "caught"
    ELSE "call"

\* What the synchronous part of a label-pass callback does.
LabelOutcome(node) ==
    IF FindThrows(node) THEN "rejected"
    ELSE IF isAlreadyLabeled(node) THEN "skip"
    ELSE IF IsUndefined(conflictLabel) THEN "caught"
    ELSE "call"

\* What the synchronous part of an unlabel-pass callback does.
UnlabelOutcome(node) ==
    IF FindThrows(node) THEN "rejected"
    ELSE IF ~isAlreadyLabeled(node) THEN "skip"
    ELSE IF IsUndefined(conflictLabel) THEN "caught"
    ELSE "call"

Call(op, node) ==
    [op |-> op, pr |-> node.id, labelId |-> conflictLabel.id, status |-> "inflight"]

RECURSIVE MapCalls(_, _)
MapCalls(op, nodes) ==
    IF nodes = <<>> THEN <<>>
    ELSE <<Call(op, Head(nodes))>> \o MapCalls(op, Tail(nodes))

IdsOf(nodes) == {nodes[i].id : i \in 1..Len(nodes)}

\* -------------------------------------------------------------------- Init
Init ==
    /\ pc = "getLabels"
    /\ failed = FALSE
    /\ conflictLabel = Undefined
    /\ pullRequests = NoPullRequests
    /\ pullrequestsWithoutMergeStatus = <<>>
    /\ tries = 0
    /\ remoteLabels \in [PRIds -> SUBSET LabelIds]
    /\ calls = <<>>
    /\ rejected = {}
    /\ fetches = 0
    /\ waits = 0
    /\ failures = {}
    /\ lastFetch = [ok |-> FALSE, edges |-> <<>>]
    /\ resolvedAt = 0
    /\ allUnknown = TRUE
    /\ prev = [ran |-> FALSE, resolved |-> FALSE, ok |-> FALSE, mutations |-> 0,
               edges |-> <<>>]
    /\ lookup = [name |-> conflictLabelName, edges |-> <<>>]

\* ----------------------------------------------------------------- actions
\* getLabels resolves; the conflict label is looked up by exact name.
GetLabelsOk(labelData) ==
    /\ pc = "getLabels"
    /\ conflictLabel' = find(labelData, conflictLabelName)
    /\ failed' = (failed \/ IsUndefined(conflictLabel'))
    /\ failures' = IF IsUndefined(conflictLabel')
                   THEN failures \cup {"labelNotFound"} ELSE failures
    /\ pc' = "loop"
    /\ UNCHANGED <<pullRequests, pullrequestsWithoutMergeStatus, tries, remoteLabels,
                   calls, rejected, fetches, waits, lastFetch, resolvedAt,
                   allUnknown, prev, lookup>>

\* getLabels rejects: setFailed, labelData stays undefined, run() goes on.
GetLabelsFails ==
    /\ pc = "getLabels"
    /\ failed' = TRUE
    /\ failures' = failures \cup {"getLabels"}
    /\ pc' = "loop"
    /\ UNCHANGED <<conflictLabel, pullRequests, pullrequestsWithoutMergeStatus, tries,
                   remoteLabels, calls, rejected, fetches, waits, lastFetch,
                   resolvedAt, allUnknown, prev, lookup>>

\* Mutant: the wait is taken on every pass, the first included.
LoopIterateAlwaysWaits ==
    /\ pc = "loop"
    /\ LoopCond
    /\ tries' = tries + 1
    /\ waits' = waits + 1
    /\ pc' = "fetch"
    /\ UNCHANGED <<failed, conflictLabel, pullRequests, pullrequestsWithoutMergeStatus,
                   remoteLabels, calls, rejected, fetches, failures, lastFetch,
                   resolvedAt, allUnknown, prev, lookup>>

\* One pass through the head of the while body: tries++, and the wait when
\* the last probe found UNKNOWN pull requests.
LoopIterate ==
    /\ pc = "loop"
    /\ LoopCond
    /\ tries' = tries + 1
    /\ waits' = IF Len(pullrequestsWithoutMergeStatus) > 0 THEN waits + 1 ELSE waits
    /\ pc' = "fetch"
    /\ UNCHANGED <<failed, conflictLabel, pullRequests, pullrequestsWithoutMergeStatus,
                   remoteLabels, calls, rejected, fetches, failures, lastFetch,
                   resolvedAt, allUnknown, prev, lookup>>

\* Mutant: the status is set from the outcome of the latest fetch, so a fetch
\* that succeeds clears an earlier failure.
GetPullRequestsOkClearsFailed(edges) ==
    /\ pc = "fetch"
    /\ pullRequests' = [isArray |-> TRUE, edges |-> edges]
    /\ pullrequestsWithoutMergeStatus' = getPullrequestsWithoutMergeStatus(edges)
    /\ fetches' = fetches + 1
    /\ lastFetch' = [ok |-> TRUE, edges |-> edges]
    /\ resolvedAt' = IF resolvedAt = 0 /\ \A i \in 1..Len(edges) : edges[i].mergeable # "UNKNOWN"
                     THEN fetches + 1 ELSE resolvedAt
    /\ allUnknown' = (allUnknown /\ \E i \in 1..Len(edges) : edges[i].mergeable = "UNKNOWN")
    /\ pc' = "loop"
    /\ failed' = FALSE
    /\ UNCHANGED <<conflictLabel, tries, remoteLabels, calls, rejected, waits,
                   failures, prev, lookup>>

\* getPullRequests resolves: the snapshot is replaced and probed.
GetPullRequestsOk(edges) ==
    /\ pc = "fetch"
    /\ pullRequests' = [isArray |-> TRUE, edges |-> edges]
    /\ pullrequestsWithoutMergeStatus' = getPullrequestsWithoutMergeStatus(edges)
    /\ fetches' = fetches + 1
    /\ lastFetch' = [ok |-> TRUE, edges |-> edges]
    /\ resolvedAt' = IF resolvedAt = 0 /\ \A i \in 1..Len(edges) : edges[i].mergeable # "UNKNOWN"
                     THEN fetches + 1 ELSE resolvedAt
    /\ allUnknown' = (allUnknown /\ \E i \in 1..Len(edges) : edges[i].mergeable = "UNKNOWN")
    /\ pc' = "loop"
    /\ UNCHANGED <<failed, conflictLabel, tries, remoteLabels, calls, rejected, waits,
                   failures, prev, lookup>>

\* getPullRequests rejects: setFailed, pullRequests keeps its old value and is
\* probed again. Probing the unassigned pullRequests either throws in the
\* helper (run() rejects) or, if the helper tolerates it, yields no UNKNOWN.
GetPullRequestsFails(helperThrows) ==
    /\ pc = "fetch"
    /\ failed' = TRUE
    /\ failures' = failures \cup {"getPullRequests"}
    /\ fetches' = fetches + 1
    /\ lastFetch' = [ok |-> FALSE, edges |-> <<>>]
    /\ allUnknown' = FALSE
    /\ IF pullRequests.isArray
       THEN /\ pullrequestsWithoutMergeStatus' =
                   getPullrequestsWithoutMergeStatus(pullRequests.edges)
            /\ pc' = "loop"
       ELSE /\ pullrequestsWithoutMergeStatus' = <<>>
            /\ pc' = IF helperThrows THEN "threw" ELSE "loop"
    /\ UNCHANGED <<conflictLabel, pullRequests, tries, remoteLabels, calls, rejected,
                   waits, resolvedAt, prev, lookup>>

\* Mutant: giving up after the last try does not call setFailed.
LoopExitSilently ==
    /\ pc = "loop"
    /\ ~LoopCond
    /\ pc' = "label"
    /\ UNCHANGED <<failed, failures, conflictLabel, pullRequests,
                   pullrequestsWithoutMergeStatus, tries, remoteLabels, calls,
                   rejected, fetches, waits, lastFetch, resolvedAt, allUnknown,
                   prev, lookup>>

\* The loop ends; with UNKNOWN pull requests left the run is marked failed,
\* and run() goes on to the passes.
LoopExit ==
    /\ pc = "loop"
    /\ ~LoopCond
    /\ failed' = (failed \/ Len(pullrequestsWithoutMergeStatus) > 0)
    /\ failures' = IF Len(pullrequestsWithoutMergeStatus) > 0
                   THEN failures \cup {"unknownMergeable"} ELSE failures
    /\ pc' = "label"
    /\ UNCHANGED <<conflictLabel, pullRequests, pullrequestsWithoutMergeStatus, tries,
                   remoteLabels, calls, rejected, fetches, waits, lastFetch,
                   resolvedAt, allUnknown, prev, lookup>>

\* pullRequests.filter(CONFLICTING) and its forEach: every callback runs up to
\* its await, so the add requests are all dispatched here, in array order.
LabelPass ==
    /\ pc = "label"
    /\ IF ~pullRequests.isArray
       THEN /\ pc' = "threw"
            /\ UNCHANGED <<calls, rejected, failed, failures>>
       ELSE /\ calls' = calls \o MapCalls("add",
                  SelectSeq(pullrequestsWithConflicts,
                            LAMBDA n : LabelOutcome(n) = "call"))
            /\ rejected' = rejected \cup
                  IdsOf(SelectSeq(pullrequestsWithConflicts,
                                  LAMBDA n : LabelOutcome(n) = "rejected"))
            /\ LET caught == SelectSeq(pullrequestsWithConflicts,
                                       LAMBDA n : LabelOutcome(n) = "caught")
               IN /\ failed' = (failed \/ caught # <<>>)
                  /\ failures' = IF caught # <<>>
                                 THEN failures \cup {"addLabelsToLabelable"}
                                 ELSE failures
            /\ pc' = "unlabel"
    /\ UNCHANGED <<conflictLabel, pullRequests, pullrequestsWithoutMergeStatus, tries,
                   remoteLabels, fetches, waits, lastFetch, resolvedAt, allUnknown,
                   prev, lookup>>

\* Mutant: the snapshot is fetched once more after the passes have dispatched.
UnlabelPassThenRefetch ==
    /\ pc = "unlabel"
    /\ calls' = calls \o MapCalls("remove",
          SelectSeq(pullrequestsWithConflictResolution,
                    LAMBDA n : UnlabelOutcome(n) = "call"))
    /\ pc' = IF fetches < maxRetries THEN "fetch" ELSE "done"
    /\ UNCHANGED <<failed, failures, rejected, conflictLabel, pullRequests,
                   pullrequestsWithoutMergeStatus, tries, remoteLabels, fetches,
                   waits, lastFetch, resolvedAt, allUnknown, prev, lookup>>

\* pullRequests.filter(MERGEABLE) and its forEach; then run() returns.
UnlabelPass ==
    /\ pc = "unlabel"
    /\ calls' = calls \o MapCalls("remove",
          SelectSeq(pullrequestsWithConflictResolution,
                    LAMBDA n : UnlabelOutcome(n) = "call"))
    /\ rejected' = rejected \cup
          IdsOf(SelectSeq(pullrequestsWithConflictResolution,
                          LAMBDA n : UnlabelOutcome(n) = "rejected"))
    /\ LET caught == SelectSeq(pullrequestsWithConflictResolution,
                               LAMBDA n : UnlabelOutcome(n) = "caught")
       IN /\ failed' = (failed \/ caught # <<>>)
          /\ failures' = IF caught # <<>>
                         THEN failures \cup {"removeLabelsFromLabelable"}
                         ELSE failures
    /\ pc' = "done"
    /\ UNCHANGED <<conflictLabel, pullRequests, pullrequestsWithoutMergeStatus, tries,
                   remoteLabels, fetches, waits, lastFetch, resolvedAt, allUnknown,
                   prev, lookup>>

\* An add request succeeds: the label is applied and the callback resumes.
\* The passes dispatch without awaiting and run() has no await after them, so
\* a callback resumes only once run() has returned.
AddLabelsOk(i) ==
    /\ pc = "done"
    /\ calls[i].op = "add" /\ calls[i].status = "inflight"
    /\ remoteLabels' = [remoteLabels EXCEPT ![calls[i].pr] = @ \cup {calls[i].labelId}]
    /\ calls' = [calls EXCEPT ![i].status = "ok"]
    /\ UNCHANGED <<pc, failed, conflictLabel, pullRequests,
                   pullrequestsWithoutMergeStatus, tries, rejected, fetches, waits,
                   failures, lastFetch, resolvedAt, allUnknown, prev, lookup>>

\* Mutant: the catch of a failed add request does not call setFailed.
AddLabelsFailsSilently(i) ==
    /\ pc = "done"
    /\ calls[i].op = "add" /\ calls[i].status = "inflight"
    /\ calls' = [calls EXCEPT ![i].status = "error"]
    /\ UNCHANGED <<pc, failed, failures, conflictLabel, pullRequests,
                   pullrequestsWithoutMergeStatus, tries, remoteLabels, rejected,
                   fetches, waits, lastFetch, resolvedAt, allUnknown, prev, lookup>>

\* An add request fails: the callback's catch marks the run failed.
AddLabelsFails(i) ==
    /\ pc = "done"
    /\ calls[i].op = "add" /\ calls[i].status = "inflight"
    /\ calls' = [calls EXCEPT ![i].status = "error"]
    /\ failed' = TRUE
    /\ failures' = failures \cup {"addLabelsToLabelable"}
    /\ UNCHANGED <<pc, conflictLabel, pullRequests, pullrequestsWithoutMergeStatus,
                   tries, remoteLabels, rejected, fetches, waits, lastFetch,
                   resolvedAt, allUnknown, prev, lookup>>

\* A remove request succeeds.
RemoveLabelsOk(i) ==
    /\ pc = "done"
    /\ calls[i].op = "remove" /\ calls[i].status = "inflight"
    /\ remoteLabels' = [remoteLabels EXCEPT ![calls[i].pr] = @ \ {calls[i].labelId}]
    /\ calls' = [calls EXCEPT ![i].status = "ok"]
    /\ UNCHANGED <<pc, failed, conflictLabel, pullRequests,
                   pullrequestsWithoutMergeStatus, tries, rejected, fetches, waits,
                   failures, lastFetch, resolvedAt, allUnknown, prev, lookup>>

\* A remove request fails.
RemoveLabelsFails(i) ==
    /\ pc = "done"
    /\ calls[i].op = "remove" /\ calls[i].status = "inflight"
    /\ calls' = [calls EXCEPT ![i].status = "error"]
    /\ failed' = TRUE
    /\ failures' = failures \cup {"removeLabelsFromLabelable"}
    /\ UNCHANGED <<pc, conflictLabel, pullRequests, pullrequestsWithoutMergeStatus,
                   tries, remoteLabels, rejected, fetches, waits, lastFetch,
                   resolvedAt, allUnknown, prev, lookup>>

AllSettled == \A i \in 1..Len(calls) : calls[i].status # "inflight"

\* The action is run again on the repository as the first run left it.
Rerun ==
    /\ pc = "done"
    /\ AllSettled
    /\ ~prev.ran
    /\ prev' = [ran |-> TRUE,
                resolved |-> ~IsUndefined(conflictLabel),
                ok |-> \A i \in 1..Len(calls) : calls[i].status = "ok",
                mutations |-> Len(calls),
                edges |-> pullRequests.edges]
    /\ pc' = "getLabels"
    /\ failed' = FALSE
    /\ conflictLabel' = Undefined
    /\ pullRequests' = NoPullRequests
    /\ pullrequestsWithoutMergeStatus' = <<>>
    /\ tries' = 0
    /\ calls' = <<>>
    /\ rejected' = {}
    /\ fetches' = 0
    /\ waits' = 0
    /\ failures' = {}
    /\ lastFetch' = [ok |-> FALSE, edges |-> <<>>]
    /\ resolvedAt' = 0
    /\ allUnknown' = TRUE
    /\ UNCHANGED <<remoteLabels, lookup>>

Next ==
    \/ \E labelData \in LabelLists : GetLabelsOk(labelData)
    \/ GetLabelsFails
    \/ LoopIterate
    \/ \E edges \in GetPullRequestsResults : GetPullRequestsOk(edges)
    \/ \E helperThrows \in BOOLEAN : GetPullRequestsFails(helperThrows)
    \/ LoopExit
    \/ LabelPass
    \/ UnlabelPass
    \/ \E i \in 1..Len(calls) : AddLabelsOk(i)
    \/ \E i \in 1..Len(calls) : AddLabelsFails(i)
    \/ \E i \in 1..Len(calls) : RemoveLabelsOk(i)
    \/ \E i \in 1..Len(calls) : RemoveLabelsFails(i)

Spec == Init /\ [][Next]_vars

NextRerun == Next \/ Rerun

SpecRerun == Init /\ [][NextRerun]_vars

\* ------------------------------------------------------------------ claims
Edges == pullRequests.edges
Resolved == ~IsUndefined(conflictLabel)
LoopEnded == pc \in {"label", "unlabel", "done"}
CallsFor(p) == {i \in 1..Len(calls) : calls[i].pr = p}
NeedsAdd(n) == n.mergeable = "CONFLICTING" /\ conflictLabel.id \notin n.labels
NeedsRemove(n) == n.mergeable = "MERGEABLE" /\ conflictLabel.id \in n.labels
Unknowns(edges) == {i \in 1..Len(edges) : edges[i].mergeable = "UNKNOWN"}

\* C1: when the label was resolved, polling ended with no UNKNOWN pull request
\* and every dispatched call has settled successfully, every pull request of
\* the final snapshot carries the conflict label in the repository iff it is
\* CONFLICTING and lacks it iff it is MERGEABLE; an UNKNOWN one keeps the
\* labels it was fetched with.
C1_Convergence ==
    (/\ pc = "done"
     /\ Resolved
     /\ pullrequestsWithoutMergeStatus = <<>>
     /\ \A i \in 1..Len(calls) : calls[i].status = "ok")
    => \A k \in 1..Len(Edges) :
          /\ (conflictLabel.id \in remoteLabels[Edges[k].id])
                <=> (Edges[k].mergeable = "CONFLICTING")
          /\ (conflictLabel.id \notin remoteLabels[Edges[k].id])
                <=> (Edges[k].mergeable = "MERGEABLE")
          /\ Edges[k].mergeable = "UNKNOWN"
                => remoteLabels[Edges[k].id] = Edges[k].labels

\* C1 witness: a converged run that needed an add and a remove, after a retry.
C1_Witness ==
    /\ pc = "done" /\ Resolved /\ pullrequestsWithoutMergeStatus = <<>>
    /\ fetches > 1
    /\ Len(calls) = 2 /\ calls[1].op = "add" /\ calls[2].op = "remove"
    /\ \A i \in 1..Len(calls) : calls[i].status = "ok"

\* C2: once both passes have run with a resolved label, the requests issued
\* are exactly one add for each CONFLICTING pull request of the final snapshot
\* that lacks the label and one remove for each MERGEABLE one that carries it;
\* every other pull request has no request, and none has more than one.
C2_ExactMutations ==
    (pc = "done" /\ Resolved)
    => \A p \in PRIds :
          IF \E k \in 1..Len(Edges) : Edges[k].id = p /\ NeedsAdd(Edges[k])
          THEN /\ Cardinality(CallsFor(p)) = 1
               /\ \A i \in CallsFor(p) :
                     calls[i].op = "add" /\ calls[i].labelId = conflictLabel.id
          ELSE IF \E k \in 1..Len(Edges) : Edges[k].id = p /\ NeedsRemove(Edges[k])
          THEN /\ Cardinality(CallsFor(p)) = 1
               /\ \A i \in CallsFor(p) :
                     calls[i].op = "remove" /\ calls[i].labelId = conflictLabel.id
          ELSE CallsFor(p) = {}

\* C2 witness: one pull request gets its add, the other is CONFLICTING and
\* already labelled and gets nothing.
C2_Witness ==
    /\ pc = "done" /\ Resolved
    /\ Len(calls) = 1 /\ calls[1].op = "add"
    /\ \E k \in 1..Len(Edges) :
          /\ Edges[k].mergeable = "CONFLICTING"
          /\ conflictLabel.id \in Edges[k].labels

\* C3: no request ever targets a pull request that is UNKNOWN in the snapshot
\* the passes read, the exhausted-budget case included.
C3_UnknownUntouched ==
    \A i \in 1..Len(calls) : \A k \in 1..Len(Edges) :
        Edges[k].id = calls[i].pr => Edges[k].mergeable # "UNKNOWN"

\* C3 witness: the budget ran out with an UNKNOWN pull request left and the
\* passes still issued a request for another one.
C3_Witness ==
    /\ pc = "done" /\ tries = maxRetries
    /\ pullrequestsWithoutMergeStatus # <<>>
    /\ calls # <<>>

\* C4: a second run on the repository as left by a first run that resolved the
\* label and whose requests all succeeded issues no add and no remove request.
C4_Idempotent ==
    (prev.ran /\ prev.resolved /\ prev.ok) => calls = <<>>

\* C4 witness: the first run issued requests and the second run, label
\* resolved again, has finished both passes.
C4_Witness ==
    /\ prev.ran /\ prev.resolved /\ prev.ok /\ prev.mutations > 0
    /\ pc = "done" /\ Resolved

\* C5: once a fetch has returned a snapshot without UNKNOWN, no further fetch
\* and no further wait happens and the unresolved list is empty.
C5_EarlyStop ==
    resolvedAt # 0
    => /\ fetches = resolvedAt
       /\ waits = resolvedAt - 1
       /\ pullrequestsWithoutMergeStatus = <<>>

\* C5 witness: attempts 1..3 held an UNKNOWN, attempt 4 none, and the run
\* finished after exactly 4 fetches.
C5_Witness == resolvedAt = 4 /\ fetches = 4 /\ pc = "done"

\* C6: a run never fetches more than maxRetries times and fetches at least
\* once before the loop ends; when every fetch returned an UNKNOWN pull
\* request the loop ends after exactly maxRetries fetches with as many
\* unresolved pull requests as the last fetch held.
C6_Budget ==
    /\ fetches <= maxRetries
    /\ (LoopEnded \/ pc = "threw") => fetches >= 1
    /\ (LoopEnded /\ allUnknown)
         => /\ fetches = maxRetries
            /\ pullrequestsWithoutMergeStatus # <<>>
            /\ Len(pullrequestsWithoutMergeStatus)
                 = Cardinality(Unknowns(lastFetch.edges))

\* C6 witness: the loop ended with every fetch having held an UNKNOWN.
C6_Witness ==
    pc = "done" /\ allUnknown /\ fetches = maxRetries /\ lastFetch.ok

\* C7: once the label was not found the run is failed and no pull request
\* fetch and no add or remove request follows.
C7_NotFoundAborts ==
    "labelNotFound" \in failures => (failed /\ fetches = 0 /\ calls = <<>>)

\* C8: once a fetch has failed the run is failed, that fetch is the last one,
\* no wait follows it and no add or remove request is issued.
C8_TransportErrorAborts ==
    /\ "getLabels" \in failures
         => (failed /\ fetches = 0 /\ waits = 0 /\ calls = <<>>)
    /\ "getPullRequests" \in failures
         => (failed /\ ~lastFetch.ok /\ waits < fetches /\ calls = <<>>)

\* C9: when the loop ends with an UNKNOWN pull request left the run is failed
\* and the passes issue no request.
C9_ExhaustionShortCircuits ==
    (LoopEnded /\ pullrequestsWithoutMergeStatus # <<>>)
    => (failed /\ calls = <<>>)

\* C10: when a request has failed, the run is failed, every pull request that
\* needed a request still got one, and every request that succeeded has its
\* effect in the repository, whatever the order the requests settle in.
C10_Independence ==
    (pc = "done" /\ \E i \in 1..Len(calls) : calls[i].status = "error")
    => /\ failed
       /\ \A k \in 1..Len(Edges) :
             (NeedsAdd(Edges[k]) \/ NeedsRemove(Edges[k]))
                => CallsFor(Edges[k].id) # {}
       /\ \A j \in 1..Len(calls) :
             calls[j].status = "ok"
                => IF calls[j].op = "add"
                   THEN calls[j].labelId \in remoteLabels[calls[j].pr]
                   ELSE calls[j].labelId \notin remoteLabels[calls[j].pr]

\* C10 witness: both requests have settled, one failed and one succeeded.
C10_Witness ==
    /\ pc = "done" /\ AllSettled
    /\ \E i, j \in 1..Len(calls) :
          calls[i].status = "error" /\ calls[j].status = "ok"

\* C11: run() has returned only when every dispatched add and remove request
\* has settled.
C11_JoinBeforeCompletion == pc = "done" => AllSettled

\* The run is over: run() has returned and nothing is in flight, or run()
\* threw.
RunOver == (pc = "done" /\ AllSettled) \/ pc = "threw"

\* C12: when the run is over its status is failed iff the label was not
\* resolved (not found, or getLabels failed), a getPullRequests call failed,
\* the loop ended with an UNKNOWN pull request left, or an add or remove
\* request failed; otherwise it is successful.
C12_FailedIff ==
    RunOver
    => (failed <=> \/ IsUndefined(conflictLabel)
                   \/ "getPullRequests" \in failures
                   \/ pullrequestsWithoutMergeStatus # <<>>
                   \/ \E i \in 1..Len(calls) : calls[i].status = "error")

\* C12 witness: a run that ended failed for the one reason that the budget
\* ran out, its requests for the other pull request having succeeded.
C12_Witness ==
    /\ RunOver /\ failed /\ Resolved
    /\ "getPullRequests" \notin failures
    /\ pullrequestsWithoutMergeStatus # <<>>
    /\ calls # <<>>
    /\ \A i \in 1..Len(calls) : calls[i].status = "ok"

\* C13: a wait is taken only after a fetch, with UNKNOWN pull requests left by
\* the last probe and tries below maxRetries, and is followed by a fetch; so
\* there is no wait before the first fetch, none after the last, and the waits
\* number one less than the fetches.
C13_WaitPlacement ==
    /\ [](IF fetches = 0 THEN waits = 0
          ELSE IF pc = "fetch" THEN waits = fetches
          ELSE waits = fetches - 1)
    /\ [][waits' # waits
            => /\ waits' = waits + 1
               /\ fetches >= 1
               /\ Len(pullrequestsWithoutMergeStatus) > 0
               /\ tries < maxRetries
               /\ pc' = "fetch"]_vars

\* C13 witness: a finished run of three fetches and two waits.
C13_Witness == pc = "done" /\ fetches = 3 /\ waits = 2

\* C14: whenever the loop test or a pass reads the snapshot, it is the result
\* of the most recent getPullRequests call.
C14_SnapshotIsLastFetch ==
    (pullRequests.isArray /\ pc \in {"loop", "label", "unlabel", "done"})
    => (lastFetch.ok /\ pullRequests.edges = lastFetch.edges)

\* C15: within a run no request is dispatched before the loop has ended, and
\* no fetch, wait or try follows the first dispatched request.
C15_FetchesBeforeMutations ==
    /\ [](calls # <<>> => pc \in {"unlabel", "done"})
    /\ [][calls' # calls /\ calls = <<>> => pc \in {"label", "unlabel"}]_vars
    /\ [][calls # <<>>
            => (fetches' = fetches /\ waits' = waits /\ tries' = tries
                /\ pullRequests' = pullRequests)]_vars

\* C15 witness: several fetches, then requests, and the run has ended.
C15_Witness ==
    pc = "done" /\ fetches >= 2 /\ Len(calls) = 2 /\ AllSettled

\* The labels a pull request of the snapshot ends with, given which of its
\* requests succeeded: a function of the snapshot and the outcomes alone.
ExpectedLabels(n) ==
    IF \E i \in CallsFor(n.id) : calls[i].op = "add" /\ calls[i].status = "ok"
    THEN n.labels \cup {conflictLabel.id}
    ELSE IF \E i \in CallsFor(n.id) : calls[i].op = "remove" /\ calls[i].status = "ok"
    THEN n.labels \ {conflictLabel.id}
    ELSE n.labels

\* C16: the two filtered lists share no pull request and no pull request is
\* the target of two requests; once every request has settled, the labels in
\* the repository and the run's status are determined by the snapshot and by
\* which requests succeeded, whatever order they settled in.
C16_OrderInsensitive ==
    /\ pullRequests.isArray
         => IdsOf(pullrequestsWithConflicts)
               \cap IdsOf(pullrequestsWithConflictResolution) = {}
    /\ \A p \in PRIds : Cardinality(CallsFor(p)) <= 1
    /\ (pc = "done" /\ AllSettled)
         => /\ \A k \in 1..Len(Edges) :
                  remoteLabels[Edges[k].id] = ExpectedLabels(Edges[k])
            /\ failed <=> \/ failures \ {"addLabelsToLabelable",
                                         "removeLabelsFromLabelable"} # {}
                          \/ IsUndefined(conflictLabel)
                          \/ \E i \in 1..Len(calls) : calls[i].status = "error"

\* C16 witness: an add and a remove were dispatched and both have settled, the
\* add failed and the remove ok.
C16_Witness ==
    /\ pc = "done" /\ AllSettled /\ Len(calls) = 2
    /\ calls[1].op = "add" /\ calls[1].status = "error"
    /\ calls[2].op = "remove" /\ calls[2].status = "ok"

\* ------------------------------------------------- the label lookup alone
\* Label names a fuzzy query for the configured name can return, and the
\* names that can be configured.
Names == {"has conflicts", "has-conflicts-old", "conflicts"}

CandidateLabels == [id : LabelIds, name : Names]

\* The candidate lists: up to NumLabels labels, in any order, names repeated
\* or not.
CandidateLists == UNION {[1..n -> CandidateLabels] : n \in 0..NumLabels}

InitResolver ==
    /\ pc = "getLabels"
    /\ failed = FALSE
    /\ conflictLabel = Undefined
    /\ pullRequests = NoPullRequests
    /\ pullrequestsWithoutMergeStatus = <<>>
    /\ tries = 0
    /\ remoteLabels = [p \in PRIds |-> {}]
    /\ calls = <<>>
    /\ rejected = {}
    /\ fetches = 0
    /\ waits = 0
    /\ failures = {}
    /\ lastFetch = [ok |-> FALSE, edges |-> <<>>]
    /\ resolvedAt = 0
    /\ allUnknown = TRUE
    /\ prev = [ran |-> FALSE, resolved |-> FALSE, ok |-> FALSE, mutations |-> 0,
               edges |-> <<>>]
    /\ lookup \in [name : Names, edges : CandidateLists]

\* The lookup of lines 34-46 on the candidates getLabels returned.
ResolveLabel ==
    /\ pc = "getLabels"
    /\ conflictLabel' = find(lookup.edges, lookup.name)
    /\ failed' = (failed \/ IsUndefined(conflictLabel'))
    /\ failures' = IF IsUndefined(conflictLabel')
                   THEN failures \cup {"labelNotFound"} ELSE failures
    /\ pc' = "resolved"
    /\ UNCHANGED <<pullRequests, pullrequestsWithoutMergeStatus, tries, remoteLabels,
                   calls, rejected, fetches, waits, lastFetch, resolvedAt,
                   allUnknown, prev, lookup>>

NextResolver == ResolveLabel

SpecResolver == InitResolver /\ [][NextResolver]_vars

\* C17: the lookup yields the first candidate whose name equals the name
\* sought, and nothing (the run is marked failed) when no candidate's name
\* equals it, whatever the order of the candidates and their other names.
C17_ExactMatch ==
    pc = "resolved"
    => LET exact == {i \in 1..Len(lookup.edges) :
                        lookup.edges[i].name = lookup.name}
       IN IF exact = {}
          THEN IsUndefined(conflictLabel) /\ failed
          ELSE /\ \E i \in exact :
                     /\ \A j \in exact : i <= j
                     /\ conflictLabel = lookup.edges[i]
               /\ ~failed

\* C17 witness: "has conflicts" sought among "has-conflicts-old" and
\* "has conflicts", in that order: the second candidate is returned.
C17_Witness ==
    /\ pc = "resolved"
    /\ lookup.name = "has conflicts"
    /\ Len(lookup.edges) = 2
    /\ lookup.edges[1].name = "has-conflicts-old"
    /\ lookup.edges[2].name = "has conflicts"
    /\ conflictLabel = lookup.edges[2]

\* C18: whenever a pass callback has read the conflict label's id (a label
\* pass callback always does, an unlabel pass callback does for a pull request
\* that has labels), the conflict label is resolved.
C18_LabelResolvedWhenRead ==
    (\/ (pc \in {"unlabel", "done"} /\ pullrequestsWithConflicts # <<>>)
     \/ (pc = "done" /\ \E k \in 1..Len(pullrequestsWithConflictResolution) :
                            pullrequestsWithConflictResolution[k].labels # {}))
    => Resolved

\* C19: after every getPullRequests call, what the probe (and later the
\* filters) was applied to is the snapshot that call returned: the call
\* succeeded and pullRequests is its result.
C19_ProbeOnFetchedSnapshot ==
    fetches >= 1
    => (lastFetch.ok /\ pullRequests.isArray /\ pullRequests.edges = lastFetch.edges)

\* C20: once the run is marked failed it stays failed, and at every point the
\* flag is the disjunction of the failures that have occurred.
C20_FailedMonotonic ==
    /\ [][failed => failed']_vars
    /\ [](failed <=> failures # {})

\* C20 witness: a fetch failed, later fetches and requests succeeded, and the
\* run has ended failed.
C20_Witness ==
    /\ pc = "done" /\ AllSettled /\ failed
    /\ failures = {"getPullRequests"}
    /\ lastFetch.ok
    /\ calls # <<>>
    /\ \A i \in 1..Len(calls) : calls[i].status = "ok"

====
